---- MODULE Spec2Model ----
(***************************************************************************)
(* Model of the project settings store (ProjectSettings.h), of the theme   *)
(* preferences panel (ThemePrefs.cpp, carried in HelpSystem.h), of the     *)
(* help launcher (HelpSystem.h) and of the device toolbar (DeviceToolbar.h)*)
(*                                                                         *)
(* Five independent subsystems, each with its own specification:           *)
(*   SpecTool   - current tool and snap mode accessors                     *)
(*   SpecSpeed  - the relaxed atomic playback speed, two threads           *)
(*   SpecTheme  - the theme panel: exchange with preferences and handlers  *)
(*   SpecHelp   - ShowHelp: local file or remote URL                       *)
(*   SpecDevice - the device toolbar over the enumerated device list       *)
(***************************************************************************)
EXTENDS Integers, Sequences, FiniteSets, TLC

VARIABLES
    \* ---- ProjectSettings: tool and snap mode
    mCurrentTool,   \* int mCurrentTool
    mSnapTo,        \* int mSnapTo
    toolArg,        \* history: argument of the latest SetTool, NoCall before any
    toolRead,       \* history: result of the latest GetTool since the latest SetTool
    snapArg,        \* history: argument of the latest SetSnapTo
    snapRead,       \* history: result of the latest GetSnapTo since the latest SetSnapTo
    \* ---- ProjectSettings: playback speed
    mPlaySpeed,     \* modification order of the atomic object, oldest first
    seen,           \* per thread: position in the modification order already observed
    written,        \* history: every value passed to SetPlaySpeed
    lastSet,        \* per thread: its SetPlaySpeed call, when that was its latest call
    speedRead,      \* per thread: what its latest GetPlaySpeed returned
    \* ---- ThemePrefs
    activeTheme,    \* what the global theTheme currently holds
    gPrefs,         \* stored preferences: theme name and blend flag
    panel,          \* life cycle of the ThemePrefs panel
    widgets,        \* the panel's choice and check box
    prefsAtCreate,  \* history: gPrefs when the panel was constructed
    edited,         \* history: the user changed a widget since construction
    handler,        \* the handler that ran last
    calls,          \* the calls the last handler made, in order
    boxes,          \* titles of the message boxes the last handler showed
    collabOk,       \* whether the theme collaborator succeeded in the last handler
    thrown,         \* what OpenPackage / ParsePackage raised in the last handler
    propagated,     \* the exception that left the last handler, NoThrow if none
    themeBefore,    \* history: activeTheme when the last handler started
    prefsBefore,    \* history: gPrefs when the last handler started
    \* ---- HelpSystem
    helpMode,       \* the user's help preference: local manual or the internet
    localFiles,     \* the help files present on the local file system
    helpCall,       \* history: the latest ShowHelp call and the state it ran in
    opened,         \* the destinations the latest ShowHelp call opened, in order
    \* ---- DeviceToolBar
    deviceMaps,     \* the device list the enumeration collaborator currently holds
    devPrefs,       \* stored host, recording device, playback device, channels
    mHost,          \* wxChoice *mHost: its items and its selection
    mInput,         \* wxChoice *mInput
    mOutput,        \* wxChoice *mOutput
    mInputChannels, \* wxChoice *mInputChannels
    fresh,          \* history: no rescan since the toolbar last validated itself
    devOp           \* history: the latest toolbar operation and what it started from

toolVars  == <<mCurrentTool, mSnapTo, toolArg, toolRead, snapArg, snapRead>>
speedVars == <<mPlaySpeed, seen, written, lastSet, speedRead>>
themeVars == <<activeTheme, gPrefs, panel, widgets, prefsAtCreate, edited, handler,
               calls, boxes, collabOk, thrown, propagated, themeBefore, prefsBefore>>
helpVars  == <<helpMode, localFiles, helpCall, opened>>
deviceVars == <<deviceMaps, devPrefs, mHost, mInput, mOutput, mInputChannels, fresh, devOp>>
vars == <<toolVars, speedVars, themeVars, helpVars, deviceVars>>

(***************************************************************************)
(* ProjectSettings.h: enumerations                                         *)
(***************************************************************************)
SNAP_OFF     == 0
SNAP_NEAREST == 1
SNAP_PRIOR   == 2

selectTool   == 0
envelopeTool == 1
drawTool     == 2
zoomTool     == 3
multiTool    == 4
numTools     == 5
firstTool    == selectTool
lastTool     == multiTool

ToolCodes == firstTool .. lastTool
SnapModes == {SNAP_OFF, SNAP_NEAREST, SNAP_PRIOR}

\* How far outside the enumerations the int arguments of the setters range.
ArgSlack == 1
IntArgs  == (0 - ArgSlack) .. (numTools + ArgSlack)

\* History values: no call yet, or the int a call passed / returned.
NoCall    == [called |-> FALSE, value |-> 0]
Called(v) == [called |-> TRUE, value |-> v]

(***************************************************************************)
(* Current tool and snap mode                                              *)
(***************************************************************************)
\* A setter that writes the neighbouring field.
SetTool_wrongField(tool) ==
    /\ mSnapTo' = tool
    /\ toolArg' = Called(tool)
    /\ toolRead' = NoCall
    /\ UNCHANGED <<mCurrentTool, snapArg, snapRead>>

\* void SetTool(int tool) { mCurrentTool = tool; }
SetTool(tool) ==
    /\ mCurrentTool' = tool
    /\ toolArg' = Called(tool)
    /\ toolRead' = NoCall
    /\ UNCHANGED <<mSnapTo, snapArg, snapRead>>

\* int GetTool() const { return mCurrentTool; }
GetTool ==
    /\ toolRead' = Called(mCurrentTool)
    /\ UNCHANGED <<mCurrentTool, mSnapTo, toolArg, snapArg, snapRead>>

\* void SetSnapTo(int snap): a plain store, no range check
SetSnapTo(snap) ==
    /\ mSnapTo' = snap
    /\ snapArg' = Called(snap)
    /\ snapRead' = NoCall
    /\ UNCHANGED <<mCurrentTool, toolArg, toolRead>>

\* int GetSnapTo() const
GetSnapTo ==
    /\ snapRead' = Called(mSnapTo)
    /\ UNCHANGED <<mCurrentTool, mSnapTo, toolArg, toolRead, snapArg>>

(***************************************************************************)
(* Playback speed: std::atomic<double>, relaxed loads and stores.          *)
(* A double is its IEEE-754 bit pattern, <<high word, low word>>.  The     *)
(* atomic object is its modification order; a relaxed load returns any     *)
(* entry not older than what the loading thread has already observed.      *)
(***************************************************************************)
Threads == {"ui", "scrubber"}

Zero         == <<0, 0>>                        \* 0.0
One          == <<1072693248, 0>>               \* 1.0
OneAndHalf   == <<1073217536, 0>>               \* 1.5
ThreeTenths  == <<1070805811, 858993459>>       \* 0.3
PlaySpeeds   == {One, OneAndHalf, ThreeTenths}

\* std::atomic<double> mPlaySpeed{};  value-initialised
InitialPlaySpeed == Zero

\* Number of SetPlaySpeed calls explored.
MaxWrites == 2

\* History values of a thread: no SetPlaySpeed pending, no GetPlaySpeed yet.
NoSet  == [arg |-> Zero, at |-> 0]
NoRead == [done |-> FALSE, value |-> Zero, set |-> NoSet, quiet |-> FALSE]

\* A store done as two word writes: the half-written object is visible.
store_torn(order, value) ==
    order \o << <<value[1], order[Len(order)][2]>>, value >>

\* mPlaySpeed.store( value, std::memory_order_relaxed )
store(order, value) == Append(order, value)

\* A load that passes through float and loses the low word.
load_narrowed(order, i) == <<order[i][1], 0>>

\* mPlaySpeed.load( std::memory_order_relaxed )
load(order, i) == order[i]

\* void SetPlaySpeed( double value )
SetPlaySpeed(th, value) ==
    /\ Len(mPlaySpeed) <= MaxWrites
    /\ mPlaySpeed' = store(mPlaySpeed, value)
    /\ seen' = [seen EXCEPT ![th] = Len(mPlaySpeed')]
    /\ written' = written \cup {value}
    /\ lastSet' = [lastSet EXCEPT ![th] = [arg |-> value, at |-> Len(mPlaySpeed')]]
    /\ UNCHANGED speedRead

\* double GetPlaySpeed() const
GetPlaySpeed(th) ==
    \E i \in seen[th] .. Len(mPlaySpeed) :
        /\ speedRead' = [speedRead EXCEPT ![th] =
                [done  |-> TRUE,
                 value |-> load(mPlaySpeed, i),
                 set   |-> lastSet[th],
                 quiet |-> lastSet[th].at = Len(mPlaySpeed)]]
        /\ seen' = [seen EXCEPT ![th] = i]
        /\ lastSet' = [lastSet EXCEPT ![th] = NoSet]
        /\ UNCHANGED <<mPlaySpeed, written>>

(***************************************************************************)
(* ThemePrefs: the panel's exchange with the stored preferences            *)
(***************************************************************************)
\* The entries of the GUITheme() choice and the values of GUIBlendThemes.
ThemeChoices == {"classic", "light", "dark"}
PrefValues   == [theme : ThemeChoices, blend : BOOLEAN]

eIsCreatingFromPrefs == "eIsCreatingFromPrefs"
eIsSavingToPrefs     == "eIsSavingToPrefs"

\* No exception.
NoThrow == [class |-> "none", type |-> "none"]

\* What every operation of the panel records: its name and the state it started
\* from; it has called no collaborator and shown no box yet.
Begin(name) ==
    /\ handler' = name
    /\ themeBefore' = activeTheme
    /\ prefsBefore' = gPrefs

Quiet ==
    /\ calls' = <<>>
    /\ boxes' = <<>>
    /\ collabOk' = FALSE
    /\ thrown' = NoThrow
    /\ propagated' = NoThrow

\* The controls of a panel before any exchange.
BlankWidgets == [theme |-> "classic", blend |-> FALSE]

\* S is the pair the shuttle works on: [prefs, widgets].
\* S.TieChoice( XXO("Th&eme:"), GUITheme() )
TieChoice(mode, S) ==
    IF mode = eIsCreatingFromPrefs
    THEN [S EXCEPT !.widgets.theme = S.prefs.theme]
    ELSE [S EXCEPT !.prefs.theme = S.widgets.theme]

\* S.TieCheckBox( XXO("B&lend system and Tenacity theme"), GUIBlendThemes )
TieCheckBox(mode, S) ==
    IF mode = eIsCreatingFromPrefs
    THEN [S EXCEPT !.widgets.blend = S.prefs.blend]
    ELSE [S EXCEPT !.prefs.blend = S.widgets.blend]

\* void ThemePrefs::PopulateOrExchange(ShuttleGui & S)
PopulateOrExchange(mode, S) == TieCheckBox(mode, TieChoice(mode, S))

\* A Populate that builds its shuttle in the saving direction.
Populate_saving(S) == PopulateOrExchange(eIsSavingToPrefs, S)

\* void ThemePrefs::Populate(): ShuttleGui S(this, eIsCreatingFromPrefs)
Populate(S) == PopulateOrExchange(eIsCreatingFromPrefs, S)

\* ThemePrefs::ThemePrefs(parent, winid) { Populate(); }
ThemePrefs_ctor ==
    /\ panel = "none"
    /\ LET S == Populate([prefs |-> gPrefs, widgets |-> BlankWidgets])
       IN  /\ gPrefs' = S.prefs
           /\ widgets' = S.widgets
    /\ panel' = "populated"
    /\ prefsAtCreate' = gPrefs
    /\ edited' = FALSE
    /\ Begin("ThemePrefs")
    /\ Quiet
    /\ UNCHANGED activeTheme

\* bool ThemePrefs::Commit(): ShuttleGui S(this, eIsSavingToPrefs)
Commit ==
    /\ panel = "populated"
    /\ LET S == PopulateOrExchange(eIsSavingToPrefs,
                                   [prefs |-> gPrefs, widgets |-> widgets])
       IN  /\ gPrefs' = S.prefs
           /\ widgets' = S.widgets
    /\ panel' = "committed"
    /\ Begin("Commit")
    /\ Quiet
    /\ UNCHANGED <<activeTheme, prefsAtCreate, edited>>

\* ThemePrefs::~ThemePrefs(): the dialog is closed, after Commit or on cancel
ThemePrefs_dtor ==
    /\ panel # "none"
    /\ panel' = "none"
    /\ widgets' = BlankWidgets
    /\ prefsAtCreate' = gPrefs
    /\ edited' = FALSE
    /\ Begin("~ThemePrefs")
    /\ Quiet
    /\ UNCHANGED <<activeTheme, gPrefs>>

\* The user picks an entry of the theme choice.
UserSelectsTheme(t) ==
    /\ panel = "populated"
    /\ widgets.theme # t
    /\ widgets' = [widgets EXCEPT !.theme = t]
    /\ edited' = TRUE
    /\ UNCHANGED <<activeTheme, gPrefs, panel, prefsAtCreate, handler, calls, boxes,
                   collabOk, thrown, propagated, themeBefore, prefsBefore>>

\* The user toggles the blend check box.
UserTogglesBlend ==
    /\ panel = "populated"
    /\ widgets' = [widgets EXCEPT !.blend = ~widgets.blend]
    /\ edited' = TRUE
    /\ UNCHANGED <<activeTheme, gPrefs, panel, prefsAtCreate, handler, calls, boxes,
                   collabOk, thrown, propagated, themeBefore, prefsBefore>>

(***************************************************************************)
(* ThemePrefs: the button handlers.  A handler runs to completion on the   *)
(* UI thread; calls holds the calls it made on its collaborators in order. *)
(***************************************************************************)
\* What theTheme can hold: the theme loaded at start-up, or the result of a load.
ThemeStates == {"preferred", "components", "image cache", "fallback"}

\* The kinds of ThemeExceptions::ArchiveError.
ArchiveErrorTypes == {"InvalidArchive", "OperationalError"}

\* What OpenPackage and ParsePackage raise.
Failures ==
    {[class |-> c, type |-> "none"] :
        c \in {"std::invalid_argument", "std::bad_alloc", "IncompatibleTheme"}}
    \cup {[class |-> "ArchiveError", type |-> t] : t \in ArchiveErrorTypes}

\* The direct and indirect base classes of an exception class.
Bases(class) == {"std::exception"}

\* Whether a handler for `caught` (by reference) takes an exception of `class`.
IsA(class, caught) == class = caught \/ caught \in Bases(class)

\* A button handler runs while the panel is shown and leaves the panel alone.
Enter(name) ==
    /\ panel = "populated"
    /\ Begin(name)
    /\ UNCHANGED <<panel, widgets, prefsAtCreate, edited>>

\* An ApplyUpdatedImages that posts the event before the colours are rebuilt.
ApplyUpdatedImages_eventFirst(trace) ==
    trace \o <<"EVT_THEME_CHANGE", "AColor::ReInit">>

\* void ThemePrefs::ApplyUpdatedImages()
ApplyUpdatedImages(trace) ==
    trace \o <<"AColor::ReInit", "EVT_THEME_CHANGE">>

\* void ThemePrefs::OnLoadThemeComponents(wxCommandEvent &)
OnLoadThemeComponents ==
    /\ Enter("OnLoadThemeComponents")
    /\ \E ok \in BOOLEAN :
        /\ collabOk' = ok
        /\ activeTheme' = IF ok THEN "components" ELSE activeTheme
    /\ calls' = ApplyUpdatedImages(<<"theTheme.LoadComponents">>)
    /\ boxes' = <<>>
    /\ thrown' = NoThrow
    /\ propagated' = NoThrow
    /\ UNCHANGED gPrefs

\* A save handler that also refreshes the images, as the load handlers do.
OnSaveThemeComponents_applying ==
    /\ Enter("OnSaveThemeComponents")
    /\ \E ok \in BOOLEAN : collabOk' = ok
    /\ calls' = ApplyUpdatedImages(<<"theTheme.SaveComponents">>)
    /\ boxes' = <<>>
    /\ thrown' = NoThrow
    /\ propagated' = NoThrow
    /\ UNCHANGED <<activeTheme, gPrefs>>

\* void ThemePrefs::OnSaveThemeComponents(wxCommandEvent &)
OnSaveThemeComponents ==
    /\ Enter("OnSaveThemeComponents")
    /\ \E ok \in BOOLEAN : collabOk' = ok
    /\ calls' = <<"theTheme.SaveComponents">>
    /\ boxes' = <<>>
    /\ thrown' = NoThrow
    /\ propagated' = NoThrow
    /\ UNCHANGED <<activeTheme, gPrefs>>

\* void ThemePrefs::OnLoadThemeCache(wxCommandEvent &)
OnLoadThemeCache ==
    /\ Enter("OnLoadThemeCache")
    /\ \E ok \in BOOLEAN :
        /\ collabOk' = ok
        /\ activeTheme' = IF ok THEN "image cache" ELSE activeTheme
    /\ calls' = ApplyUpdatedImages(<<"theTheme.ReadImageCache">>)
    /\ boxes' = <<>>
    /\ thrown' = NoThrow
    /\ propagated' = NoThrow
    /\ UNCHANGED gPrefs

\* void ThemePrefs::OnSaveThemeCache(wxCommandEvent &)
OnSaveThemeCache ==
    /\ Enter("OnSaveThemeCache")
    /\ \E ok \in BOOLEAN : collabOk' = ok
    /\ calls' = <<"theTheme.CreateImageCache", "theTheme.WriteImageMap">>
    /\ boxes' = <<>>
    /\ thrown' = NoThrow
    /\ propagated' = NoThrow
    /\ UNCHANGED <<activeTheme, gPrefs>>

\* void ThemePrefs::OnReadThemeInternal(wxCommandEvent &)
OnReadThemeInternal ==
    /\ Enter("OnReadThemeInternal")
    /\ \E ok \in BOOLEAN :
        /\ collabOk' = ok
        /\ activeTheme' = IF ok THEN "fallback" ELSE activeTheme
    /\ calls' = ApplyUpdatedImages(
                    <<"theTheme.GetFallbackThemeType", "theTheme.ReadImageCache">>)
    /\ boxes' = <<>>
    /\ thrown' = NoThrow
    /\ propagated' = NoThrow
    /\ UNCHANGED gPrefs

\* void ThemePrefs::OnSaveThemeAsCode(wxCommandEvent &)
OnSaveThemeAsCode ==
    /\ Enter("OnSaveThemeAsCode")
    /\ \E ok \in BOOLEAN : collabOk' = ok
    /\ calls' = <<"theTheme.SaveThemeAsCode", "theTheme.WriteImageDefs">>
    /\ boxes' = <<>>
    /\ thrown' = NoThrow
    /\ propagated' = NoThrow
    /\ UNCHANGED <<activeTheme, gPrefs>>

(***************************************************************************)
(* ThemePrefs::OnLoadThemePackage: file dialog, open, parse, message box   *)
(***************************************************************************)
\* The catch clauses of the try block, in the order they are written.
CatchClauses ==
    <<"std::invalid_argument", "std::bad_alloc", "IncompatibleTheme", "ArchiveError">>

\* The first clause that takes the exception e; 0 when none does.
CatchIndex(e) ==
    LET hits == {i \in 1 .. Len(CatchClauses) : IsA(e.class, CatchClauses[i])}
    IN  IF hits = {} THEN 0
        ELSE CHOOSE i \in hits : \A j \in hits : i <= j

\* A switch that lost its second case.
ArchiveErrorBoxes_oneCase(type) ==
    CASE type = "InvalidArchive" -> <<"Invalid archive">>
      [] OTHER                   -> <<>>

\* switch (aee.GetErrorType()): the boxes shown for an ArchiveError
ArchiveErrorBoxes(type) ==
    CASE type = "InvalidArchive"   -> <<"Invalid archive">>
      [] type = "OperationalError" -> <<"Operational error">>
      [] OTHER                     -> <<>>

\* Catch clauses where the third box was pasted from the first.
CatchBoxes_pasted(e) ==
    LET k == CatchIndex(e)
    IN  CASE k = 1 -> <<"Invalid theme">>
          [] k = 2 -> <<"Memory error">>
          [] k = 3 -> <<"Invalid theme">>
          [] k = 4 -> ArchiveErrorBoxes(e.type)
          [] OTHER -> <<>>

\* The titles of the boxes the clause taking e shows.
CatchBoxes(e) ==
    LET k == CatchIndex(e)
    IN  CASE k = 1 -> <<"Invalid theme">>
          [] k = 2 -> <<"Memory error">>
          [] k = 3 -> <<"Incompatible theme">>
          [] k = 4 -> ArchiveErrorBoxes(e.type)
          [] OTHER -> <<>>

\* A handler that installs the package it parsed.
LoadThemePackageBody_installing(dialog, open, parse, theme) ==
    LET raised == IF open # NoThrow THEN open ELSE parse
    IN  IF dialog = "wxID_CANCEL"
        THEN [calls |-> <<"fileDialog.ShowModal">>, boxes |-> <<>>,
              thrown |-> NoThrow, propagated |-> NoThrow, theme |-> theme]
        ELSE IF raised = NoThrow
        THEN [calls |-> ApplyUpdatedImages(<<"fileDialog.ShowModal", "theme.OpenPackage",
                          "theme.ParsePackage", "AudacityMessageBox">>),
              boxes |-> <<"Success!">>,
              thrown |-> NoThrow, propagated |-> NoThrow, theme |-> "components"]
        ELSE [calls |-> <<"fileDialog.ShowModal", "theme.OpenPackage">>
                        \o (IF open = NoThrow THEN <<"theme.ParsePackage">> ELSE <<>>)
                        \o [i \in 1 .. Len(CatchBoxes(raised)) |-> "AudacityMessageBox"],
              boxes |-> CatchBoxes(raised),
              thrown |-> raised,
              propagated |-> IF CatchIndex(raised) = 0 THEN raised ELSE NoThrow,
              theme |-> theme]

\* The body of OnLoadThemePackage for one answer of the file dialog and one
\* outcome each of OpenPackage and ParsePackage; theme is theTheme's content.
LoadThemePackageBody(dialog, open, parse, theme) ==
    LET raised == IF open # NoThrow THEN open ELSE parse
    IN  IF dialog = "wxID_CANCEL"
        THEN [calls |-> <<"fileDialog.ShowModal">>, boxes |-> <<>>,
              thrown |-> NoThrow, propagated |-> NoThrow, theme |-> theme]
        ELSE IF raised = NoThrow
        THEN [calls |-> <<"fileDialog.ShowModal", "theme.OpenPackage",
                          "theme.ParsePackage", "AudacityMessageBox">>,
              boxes |-> <<"Success!">>,
              thrown |-> NoThrow, propagated |-> NoThrow, theme |-> theme]
        ELSE [calls |-> <<"fileDialog.ShowModal", "theme.OpenPackage">>
                        \o (IF open = NoThrow THEN <<"theme.ParsePackage">> ELSE <<>>)
                        \o [i \in 1 .. Len(CatchBoxes(raised)) |-> "AudacityMessageBox"],
              boxes |-> CatchBoxes(raised),
              thrown |-> raised,
              propagated |-> IF CatchIndex(raised) = 0 THEN raised ELSE NoThrow,
              theme |-> theme]

\* void ThemePrefs::OnLoadThemePackage(wxCommandEvent&)
OnLoadThemePackage ==
    /\ Enter("OnLoadThemePackage")
    /\ \E dialog \in {"wxID_OK", "wxID_CANCEL"} :
       \E open \in (IF dialog = "wxID_OK" THEN Failures ELSE {}) \cup {NoThrow} :
       \E parse \in (IF dialog = "wxID_OK" /\ open = NoThrow THEN Failures ELSE {})
                       \cup {NoThrow} :
        LET r == LoadThemePackageBody(dialog, open, parse, activeTheme)
        IN  /\ calls' = r.calls
            /\ boxes' = r.boxes
            /\ thrown' = r.thrown
            /\ propagated' = r.propagated
            /\ activeTheme' = r.theme
            /\ collabOk' = (dialog = "wxID_OK" /\ r.thrown = NoThrow)
    /\ UNCHANGED gPrefs

(***************************************************************************)
(* HelpSystem::ShowHelp(parent, localFileName, remoteURL, bModal)          *)
(* A file name or URL is the sequence of its parts; "#" starts an anchor.  *)
(***************************************************************************)
HelpModes == {"Local", "FromInternet"}

ManualFiles == {<<"index.html">>, <<"faq.html">>}
LocalFileNames ==
    {<<>>, <<"#", "top">>,
     <<"index.html">>, <<"index.html", "#", "top">>,
     <<"faq.html">>, <<"faq.html", "#", "top">>}
RemoteURLs ==
    {<<>>, <<"https://manual", "index.html">>, <<"https://manual", "faq.html", "#", "top">>}

NoHelpCall == [done |-> FALSE, local |-> <<>>, remote |-> <<>>,
               mode |-> "Local", files |-> {}]

\* file.name#anchor: the file name is what precedes the last "#".
StripAnchor(name) ==
    LET hashes == {i \in 1 .. Len(name) : name[i] = "#"}
    IN  IF hashes = {} THEN name
        ELSE SubSeq(name, 1, (CHOOSE i \in hashes : \A j \in hashes : j <= i) - 1)

\* A local file name is valid when it names a file that exists.
LocalValid(name, files) ==
    /\ StripAnchor(name) # <<>>
    /\ StripAnchor(name) \in files

\* A resolution that honours only the validity of the local file.
HelpDestinations_ignoringPreference(local, remote, mode, files) ==
    IF ~LocalValid(local, files)
    THEN <<[kind |-> "remote", target |-> remote]>>
    ELSE <<[kind |-> "local", target |-> local]>>

\* What ShowHelp opens: remoteURL instead of the file if it is nonempty and
\* the preferences specify remote, or if localFileName is invalid.
HelpDestinations(local, remote, mode, files) ==
    IF (remote # <<>> /\ mode = "FromInternet") \/ ~LocalValid(local, files)
    THEN <<[kind |-> "remote", target |-> remote]>>
    ELSE <<[kind |-> "local", target |-> local]>>

\* static void ShowHelp(parent, localFileName, remoteURL, bModal)
ShowHelp(localFileName, remoteURL) ==
    /\ opened' = HelpDestinations(localFileName, remoteURL, helpMode, localFiles)
    /\ helpCall' = [done |-> TRUE, local |-> localFileName, remote |-> remoteURL,
                    mode |-> helpMode, files |-> localFiles]
    /\ UNCHANGED <<helpMode, localFiles>>

\* The user changes the help preference.
SetHelpMode(mode) ==
    /\ helpMode # mode
    /\ helpMode' = mode
    /\ UNCHANGED <<localFiles, helpCall, opened>>

\* The local manual is installed or removed, one file at a time.
ManualFileChanges(file) ==
    /\ localFiles' = IF file \in localFiles THEN localFiles \ {file}
                     ELSE localFiles \cup {file}
    /\ UNCHANGED <<helpMode, helpCall, opened>>

(***************************************************************************)
(* DeviceToolBar: four selectors over the enumerated device list.          *)
(* The toolbar and the stored device selection are handled as one record   *)
(* T = [prefs, host, input, output, channels]; a selector is [items, sel], *)
(* sel = "" when nothing is selected.                                      *)
(***************************************************************************)
HostNames   == <<"ALSA", "JACK">>
DeviceNames == <<"hw:0", "hw:1">>

\* A host that an earlier session knew and that is enumerated no more.
RemovedHost == "OSS"

\* The elements of a sequence, and a sequence without its repetitions.
Range(seq) == {seq[i] : i \in 1 .. Len(seq)}
RECURSIVE Distinct(_)
Distinct(seq) ==
    IF seq = <<>> THEN <<>>
    ELSE LET front == Distinct(SubSeq(seq, 1, Len(seq) - 1))
             last  == seq[Len(seq)]
         IN  IF last \in Range(front) THEN front ELSE Append(front, last)

\* The device lists a scan can produce: every host it finds has a device.
AllMaps ==
    [i \in 1 .. Len(HostNames) * Len(DeviceNames) |->
        [host   |-> HostNames[((i - 1) \div Len(DeviceNames)) + 1],
         device |-> DeviceNames[((i - 1) % Len(DeviceNames)) + 1]]]
Scans ==
    {SelectSeq(AllMaps, LAMBDA m : m \in present) :
        present \in (SUBSET Range(AllMaps)) \ {{}}}

\* The channels a recording device offers.
MaxChannels(device) == IF device = DeviceNames[1] THEN 1 ELSE 2

HostsOf(maps)         == Distinct([i \in 1 .. Len(maps) |-> maps[i].host])
DevicesOf(maps, host) ==
    LET ofHost == SelectSeq(maps, LAMBDA m : m.host = host)
    IN  [i \in 1 .. Len(ofHost) |-> ofHost[i].device]

NoItems == [items |-> <<>>, sel |-> ""]
NoChannels == [items |-> <<>>, sel |-> 0]

\* void DeviceToolBar::FillHosts()
FillHosts(T, maps) ==
    [T EXCEPT !.host = [items |-> HostsOf(maps), sel |-> T.host.sel]]

\* void DeviceToolBar::FillInputChannels()
FillInputChannels(T, maps) ==
    IF T.input.sel = "" THEN [T EXCEPT !.channels = NoChannels]
    ELSE LET max == MaxChannels(T.input.sel)
             chosen == IF T.prefs.channels <= max THEN T.prefs.channels ELSE max
         IN  [T EXCEPT !.channels = [items |-> [i \in 1 .. max |-> i], sel |-> chosen],
                       !.prefs.channels = chosen]

\* A default among the items of a list, "" when the list is empty.
DefaultOf(items) == IF items = <<>> THEN "" ELSE items[1]

\* A FillHostDevices that takes the stored selection as it is.
FillHostDevices_trusting(T, maps) ==
    LET host == T.prefs.host
    IN  [T EXCEPT !.host.sel = host,
                  !.input  = [items |-> DevicesOf(maps, host), sel |-> T.prefs.record],
                  !.output = [items |-> DevicesOf(maps, host), sel |-> T.prefs.play]]

\* void DeviceToolBar::FillHostDevices(): the stored host if it is enumerated,
\* else the default host; its devices; the stored devices if they are among
\* them, else the default device.
FillHostDevices(T, maps) ==
    LET host    == IF T.prefs.host \in Range(HostsOf(maps)) THEN T.prefs.host
                   ELSE DefaultOf(HostsOf(maps))
        devices == DevicesOf(maps, host)
        record  == IF T.prefs.record \in Range(devices) THEN T.prefs.record
                   ELSE DefaultOf(devices)
        play    == IF T.prefs.play \in Range(devices) THEN T.prefs.play
                   ELSE DefaultOf(devices)
    IN  [T EXCEPT !.prefs.host = host, !.prefs.record = record, !.prefs.play = play,
                  !.host.sel = host,
                  !.input  = [items |-> devices, sel |-> record],
                  !.output = [items |-> devices, sel |-> play]]

\* void DeviceToolBar::RefillCombos()
RefillCombos(T, maps) ==
    FillInputChannels(FillHostDevices(FillHosts(T, maps), maps), maps)

\* int DeviceToolBar::ChangeHost(): the host selector's selection is stored
\* and the devices are filled for it.
ChangeHost(T, maps) ==
    FillInputChannels(
        FillHostDevices([T EXCEPT !.prefs.host = T.host.sel], maps), maps)

\* void DeviceToolBar::ChangeDevice(bool isInput)
ChangeDevice(T, maps, isInput) ==
    LET devices == DevicesOf(maps, T.prefs.host)
        picked  == IF isInput THEN T.input.sel ELSE T.output.sel
        device  == IF picked \in Range(devices) THEN picked ELSE DefaultOf(devices)
    IN  IF isInput
        THEN FillInputChannels([T EXCEPT !.input.sel = device,
                                         !.prefs.record = device], maps)
        ELSE [T EXCEPT !.output.sel = device, !.prefs.play = device]

Toolbar == [prefs |-> devPrefs, host |-> mHost, input |-> mInput,
            output |-> mOutput, channels |-> mInputChannels]

Becomes(T) ==
    /\ devPrefs' = T.prefs
    /\ mHost' = T.host
    /\ mInput' = T.input
    /\ mOutput' = T.output
    /\ mInputChannels' = T.channels

\* What an operation started from: the host and the devices selected before it.
Started(name, host, record, play) ==
    [name |-> name, host |-> host, record |-> record, play |-> play]

\* void DeviceToolBar::Populate(): the selectors are created and filled
DeviceToolBar_Populate ==
    /\ devOp.name = "none"
    /\ Becomes(RefillCombos(Toolbar, deviceMaps))
    /\ fresh' = TRUE
    /\ devOp' = Started("Populate", devPrefs.host, devPrefs.record, devPrefs.play)
    /\ UNCHANGED deviceMaps

\* The enumeration collaborator rescans; its notification is still to come.
DevicesRescanned(scan) ==
    /\ devOp.name # "none"
    /\ scan # deviceMaps
    /\ deviceMaps' = scan
    /\ fresh' = FALSE
    /\ UNCHANGED <<devPrefs, mHost, mInput, mOutput, mInputChannels, devOp>>

\* void DeviceToolBar::OnRescannedDevices( wxEvent& )
OnRescannedDevices ==
    /\ devOp.name # "none"
    /\ ~fresh
    /\ Becomes(RefillCombos(Toolbar, deviceMaps))
    /\ fresh' = TRUE
    /\ devOp' = Started("OnRescannedDevices", devPrefs.host, devPrefs.record, devPrefs.play)
    /\ UNCHANGED deviceMaps

\* void DeviceToolBar::OnChoice(wxCommandEvent &), from the host selector
OnChoiceHost(item) ==
    /\ devOp.name # "none"
    /\ item \in 1 .. Len(mHost.items)
    /\ Becomes(ChangeHost([Toolbar EXCEPT !.host.sel = mHost.items[item]], deviceMaps))
    /\ devOp' = Started("ChangeHost", mHost.items[item], devPrefs.record, devPrefs.play)
    /\ UNCHANGED <<deviceMaps, fresh>>

\* void DeviceToolBar::OnChoice(wxCommandEvent &), from a device selector
OnChoiceDevice(isInput, item) ==
    /\ devOp.name # "none"
    /\ item \in 1 .. Len(IF isInput THEN mInput.items ELSE mOutput.items)
    /\ Becomes(ChangeDevice(
            IF isInput THEN [Toolbar EXCEPT !.input.sel = mInput.items[item]]
            ELSE [Toolbar EXCEPT !.output.sel = mOutput.items[item]],
            deviceMaps, isInput))
    /\ devOp' = Started("ChangeDevice", devPrefs.host,
                        IF isInput THEN mInput.items[item] ELSE devPrefs.record,
                        IF isInput THEN devPrefs.play ELSE mOutput.items[item])
    /\ UNCHANGED <<deviceMaps, fresh>>

(***************************************************************************)
(* Initial states and specifications                                       *)
(***************************************************************************)
InitTool ==
    /\ mCurrentTool \in ToolCodes
    /\ mSnapTo \in SnapModes
    /\ toolArg = NoCall
    /\ toolRead = NoCall
    /\ snapArg = NoCall
    /\ snapRead = NoCall

InitSpeed ==
    /\ mPlaySpeed = <<InitialPlaySpeed>>
    /\ seen = [th \in Threads |-> 1]
    /\ written = {}
    /\ lastSet = [th \in Threads |-> NoSet]
    /\ speedRead = [th \in Threads |-> NoRead]

InitTheme ==
    /\ activeTheme = "preferred"
    /\ gPrefs \in PrefValues
    /\ panel = "none"
    /\ widgets = BlankWidgets
    /\ prefsAtCreate = gPrefs
    /\ edited = FALSE
    /\ handler = "none"
    /\ calls = <<>>
    /\ boxes = <<>>
    /\ collabOk = FALSE
    /\ thrown = NoThrow
    /\ propagated = NoThrow
    /\ themeBefore = activeTheme
    /\ prefsBefore = gPrefs

InitHelp ==
    /\ helpMode = "Local"
    /\ localFiles = ManualFiles
    /\ helpCall = NoHelpCall
    /\ opened = <<>>

\* The toolbar before Populate; the stored selection is an earlier session's.
InitDevice ==
    /\ deviceMaps \in Scans
    /\ devPrefs \in [host : Range(HostNames) \cup {RemovedHost},
                     record : Range(DeviceNames), play : Range(DeviceNames),
                     channels : 1 .. 2]
    /\ mHost = NoItems
    /\ mInput = NoItems
    /\ mOutput = NoItems
    /\ mInputChannels = NoChannels
    /\ fresh = FALSE
    /\ devOp = Started("none", devPrefs.host, devPrefs.record, devPrefs.play)

\* One project with its settings, before any panel is opened.
Init ==
    /\ InitTool
    /\ InitSpeed
    /\ InitTheme
    /\ InitHelp
    /\ InitDevice

\* The same, with the subsystems a specification leaves alone at one start value.
InitToolOnly ==
    /\ Init
    /\ deviceMaps = AllMaps
    /\ devPrefs = [host |-> HostNames[1], record |-> DeviceNames[1],
                   play |-> DeviceNames[1], channels |-> 1]
    /\ gPrefs = [theme |-> "classic", blend |-> FALSE]

InitSpeedOnly ==
    /\ Init
    /\ deviceMaps = AllMaps
    /\ devPrefs = [host |-> HostNames[1], record |-> DeviceNames[1],
                   play |-> DeviceNames[1], channels |-> 1]
    /\ mCurrentTool = selectTool
    /\ mSnapTo = SNAP_OFF
    /\ gPrefs = [theme |-> "classic", blend |-> FALSE]

InitThemeOnly ==
    /\ Init
    /\ deviceMaps = AllMaps
    /\ devPrefs = [host |-> HostNames[1], record |-> DeviceNames[1],
                   play |-> DeviceNames[1], channels |-> 1]
    /\ mCurrentTool = selectTool
    /\ mSnapTo = SNAP_OFF

InitHelpOnly ==
    /\ Init
    /\ deviceMaps = AllMaps
    /\ devPrefs = [host |-> HostNames[1], record |-> DeviceNames[1],
                   play |-> DeviceNames[1], channels |-> 1]
    /\ mCurrentTool = selectTool
    /\ mSnapTo = SNAP_OFF
    /\ gPrefs = [theme |-> "classic", blend |-> FALSE]

NextTool ==
    \/ \E tool \in IntArgs : SetTool(tool) /\ UNCHANGED <<speedVars, themeVars, helpVars, deviceVars>>
    \/ GetTool /\ UNCHANGED <<speedVars, themeVars, helpVars, deviceVars>>
    \/ \E snap \in IntArgs : SetSnapTo(snap) /\ UNCHANGED <<speedVars, themeVars, helpVars, deviceVars>>
    \/ GetSnapTo /\ UNCHANGED <<speedVars, themeVars, helpVars, deviceVars>>

NextSpeed ==
    \/ \E th \in Threads, value \in PlaySpeeds :
            SetPlaySpeed(th, value) /\ UNCHANGED <<toolVars, themeVars, helpVars, deviceVars>>
    \/ \E th \in Threads : GetPlaySpeed(th) /\ UNCHANGED <<toolVars, themeVars, helpVars, deviceVars>>

NextTheme ==
    \/ ThemePrefs_ctor /\ UNCHANGED <<toolVars, speedVars, helpVars, deviceVars>>
    \/ Commit /\ UNCHANGED <<toolVars, speedVars, helpVars, deviceVars>>
    \/ ThemePrefs_dtor /\ UNCHANGED <<toolVars, speedVars, helpVars, deviceVars>>
    \/ \E t \in ThemeChoices : UserSelectsTheme(t) /\ UNCHANGED <<toolVars, speedVars, helpVars, deviceVars>>
    \/ UserTogglesBlend /\ UNCHANGED <<toolVars, speedVars, helpVars, deviceVars>>
    \/ OnLoadThemePackage /\ UNCHANGED <<toolVars, speedVars, helpVars, deviceVars>>
    \/ OnLoadThemeComponents /\ UNCHANGED <<toolVars, speedVars, helpVars, deviceVars>>
    \/ OnSaveThemeComponents /\ UNCHANGED <<toolVars, speedVars, helpVars, deviceVars>>
    \/ OnLoadThemeCache /\ UNCHANGED <<toolVars, speedVars, helpVars, deviceVars>>
    \/ OnSaveThemeCache /\ UNCHANGED <<toolVars, speedVars, helpVars, deviceVars>>
    \/ OnReadThemeInternal /\ UNCHANGED <<toolVars, speedVars, helpVars, deviceVars>>
    \/ OnSaveThemeAsCode /\ UNCHANGED <<toolVars, speedVars, helpVars, deviceVars>>

InitDeviceOnly ==
    /\ Init
    /\ mCurrentTool = selectTool
    /\ mSnapTo = SNAP_OFF
    /\ gPrefs = [theme |-> "classic", blend |-> FALSE]

NextDevice ==
    \/ DeviceToolBar_Populate /\ UNCHANGED <<toolVars, speedVars, themeVars, helpVars>>
    \/ \E scan \in Scans :
            DevicesRescanned(scan) /\ UNCHANGED <<toolVars, speedVars, themeVars, helpVars>>
    \/ OnRescannedDevices /\ UNCHANGED <<toolVars, speedVars, themeVars, helpVars>>
    \/ \E item \in 1 .. Len(HostNames) :
            OnChoiceHost(item) /\ UNCHANGED <<toolVars, speedVars, themeVars, helpVars>>
    \/ \E isInput \in BOOLEAN, item \in 1 .. Len(DeviceNames) :
            OnChoiceDevice(isInput, item)
                /\ UNCHANGED <<toolVars, speedVars, themeVars, helpVars>>

NextHelp ==
    \/ \E local \in LocalFileNames, remote \in RemoteURLs :
            ShowHelp(local, remote) /\ UNCHANGED <<toolVars, speedVars, themeVars, deviceVars>>
    \/ \E mode \in HelpModes : SetHelpMode(mode) /\ UNCHANGED <<toolVars, speedVars, themeVars, deviceVars>>
    \/ \E file \in ManualFiles :
            ManualFileChanges(file) /\ UNCHANGED <<toolVars, speedVars, themeVars, deviceVars>>

SpecTool  == InitToolOnly /\ [][NextTool]_vars
SpecSpeed == InitSpeedOnly /\ [][NextSpeed]_vars
SpecTheme == InitThemeOnly /\ [][NextTheme]_vars
SpecHelp  == InitHelpOnly /\ [][NextHelp]_vars
SpecDevice == InitDeviceOnly /\ [][NextDevice]_vars

Next == NextTool \/ NextSpeed \/ NextTheme \/ NextHelp \/ NextDevice
Spec == Init /\ [][Next]_vars

(***************************************************************************)
(* Properties                                                              *)
(***************************************************************************)
\* How often a call occurs in a handler's calls.
Count(call, trace) == Cardinality({i \in 1 .. Len(trace) : trace[i] = call})

\* The positions of a call in a handler's calls.
Positions(call, trace) == {i \in 1 .. Len(trace) : trace[i] = call}

\* The box title that names each failure class.
TitleNaming(e) ==
    CASE e.class = "std::invalid_argument" -> "Invalid theme"
      [] e.class = "std::bad_alloc"        -> "Memory error"
      [] e.class = "IncompatibleTheme"     -> "Incompatible theme"
      [] e.class = "ArchiveError" /\ e.type = "InvalidArchive"   -> "Invalid archive"
      [] e.class = "ArchiveError" /\ e.type = "OperationalError" -> "Operational error"
      [] OTHER -> "no title"

\* C1: when OpenPackage or ParsePackage fails with IncompatibleTheme, the
\* active theme is what it was before the handler, no theme-changed
\* notification is raised, and the only box shown is "Incompatible theme".
C1_IncompatibleThemeBox ==
    (handler = "OnLoadThemePackage" /\ thrown.class = "IncompatibleTheme") =>
        /\ activeTheme = themeBefore
        /\ Count("EVT_THEME_CHANGE", calls) = 0
        /\ boxes = <<"Incompatible theme">>
        /\ Count("AudacityMessageBox", calls) = 1

C1_Witness ==
    /\ handler = "OnLoadThemePackage"
    /\ thrown.class = "IncompatibleTheme"
    /\ Count("theme.ParsePackage", calls) = 1
    /\ themeBefore = "image cache"
    /\ boxes = <<"Incompatible theme">>

\* C2: every failure OpenPackage or ParsePackage raises is caught in the
\* handler: none leaves it, and exactly one message box, the one naming the
\* failure class, is shown, as the handler's last call.
C2_EveryFailureOneBox ==
    (handler = "OnLoadThemePackage" /\ thrown # NoThrow) =>
        /\ propagated = NoThrow
        /\ boxes = <<TitleNaming(thrown)>>
        /\ Count("AudacityMessageBox", calls) = 1
        /\ calls[Len(calls)] = "AudacityMessageBox"

C2_Witness ==
    /\ handler = "OnLoadThemePackage"
    /\ thrown = [class |-> "ArchiveError", type |-> "OperationalError"]
    /\ Count("theme.ParsePackage", calls) = 0
    /\ propagated = NoThrow
    /\ boxes = <<"Operational error">>

\* C3: whatever a thread's GetPlaySpeed returns is the initial value or a
\* value some SetPlaySpeed call passed, whole; never a mix of two values.
C3_NoTornRead ==
    \A th \in Threads :
        speedRead[th].done => speedRead[th].value \in {InitialPlaySpeed} \cup written

\* The scrubber reads a written value that is no longer the newest one while
\* the ui thread has written twice.
C3_Witness ==
    /\ speedRead["scrubber"].done
    /\ speedRead["scrubber"].value = ThreeTenths
    /\ Len(mPlaySpeed) = 3
    /\ mPlaySpeed[Len(mPlaySpeed)] = OneAndHalf
    /\ lastSet["ui"].at = 3
    /\ speedRead["ui"].done

C5_GetToolReturnsSet ==
    (toolRead.called /\ toolArg.called /\ toolArg.value \in ToolCodes) =>
        toolRead.value = toolArg.value

C5_Witness ==
    /\ toolArg = Called(multiTool)
    /\ toolRead = Called(multiTool)

\* C6: a GetPlaySpeed that a thread calls right after its SetPlaySpeed(v),
\* with no other write in between, returns exactly v.
C6_GetPlaySpeedReturnsSet ==
    \A th \in Threads :
        (speedRead[th].done /\ speedRead[th].set # NoSet /\ speedRead[th].quiet) =>
            speedRead[th].value = speedRead[th].set.arg

\* The ui thread sets 1.5 and reads 1.5; and so it does with 0.3.
C6_Witness ==
    /\ speedRead["ui"].done
    /\ speedRead["ui"].quiet
    /\ speedRead["ui"].set.arg = OneAndHalf
    /\ speedRead["ui"].value = OneAndHalf
    /\ speedRead["scrubber"].quiet
    /\ speedRead["scrubber"].value = ThreeTenths

\* C7: the current tool is always one of selectTool .. multiTool and the snap
\* mode always one of SNAP_OFF, SNAP_NEAREST, SNAP_PRIOR.
C7_ToolAndSnapEnumerated ==
    /\ mCurrentTool \in ToolCodes
    /\ mSnapTo \in SnapModes

\* The collaborator call each loading handler delegates to.
LoadOps == {"OnLoadThemeCache", "OnLoadThemeComponents", "OnReadThemeInternal"}
Delegate(h) ==
    IF h = "OnLoadThemeComponents" THEN "theTheme.LoadComponents"
    ELSE "theTheme.ReadImageCache"

\* C8: a successful load image cache, load theme components or read defaults
\* calls the theme collaborator, then AColor::ReInit, then raises
\* EVT_THEME_CHANGE, once, and never before the collaborator call.
C8_LoadThenReInitThenNotify ==
    (handler \in LoadOps /\ collabOk) =>
        /\ Count("EVT_THEME_CHANGE", calls) = 1
        /\ Count("AColor::ReInit", calls) = 1
        /\ Count(Delegate(handler), calls) = 1
        /\ \A c \in Positions(Delegate(handler), calls),
              r \in Positions("AColor::ReInit", calls),
              e \in Positions("EVT_THEME_CHANGE", calls) : c < r /\ r < e

C8_Witness ==
    /\ handler = "OnReadThemeInternal"
    /\ collabOk
    /\ themeBefore = "components"
    /\ activeTheme = "fallback"
    /\ calls[Len(calls)] = "EVT_THEME_CHANGE"

SaveOps == {"OnSaveThemeCache", "OnSaveThemeComponents"}

\* C9 as stated: a successful save image cache or save theme components
\* raises the theme-changed notification.
C9_SavesNotify ==
    (handler \in SaveOps /\ collabOk) => Count("EVT_THEME_CHANGE", calls) = 1

\* C9, amended: save image cache and save theme components only delegate to
\* the theme collaborator (CreateImageCache then WriteImageMap; SaveComponents);
\* they raise no theme-changed notification, do not re-initialise the colours
\* and leave the active theme as it was.
C9_SavesOnlyDelegate ==
    (handler \in SaveOps) =>
        /\ calls = IF handler = "OnSaveThemeCache"
                   THEN <<"theTheme.CreateImageCache", "theTheme.WriteImageMap">>
                   ELSE <<"theTheme.SaveComponents">>
        /\ Count("EVT_THEME_CHANGE", calls) = 0
        /\ activeTheme = themeBefore

C9_Witness ==
    /\ handler = "OnSaveThemeComponents"
    /\ collabOk
    /\ activeTheme = "image cache"
    /\ calls = <<"theTheme.SaveComponents">>

\* C10: on every path of OnLoadThemePackage (dialog cancelled, package
\* parsed, failure caught) the active theme and the stored preferences are
\* what they were before, no theme-changed notification is raised, and the
\* handler calls nothing but the dialog, its local package and message boxes.
C10_LoadPackageChangesNothing ==
    (handler = "OnLoadThemePackage") =>
        /\ activeTheme = themeBefore
        /\ gPrefs = prefsBefore
        /\ Count("EVT_THEME_CHANGE", calls) = 0
        /\ \A i \in 1 .. Len(calls) :
              calls[i] \in {"fileDialog.ShowModal", "theme.OpenPackage",
                            "theme.ParsePackage", "AudacityMessageBox"}

C10_Witness ==
    /\ handler = "OnLoadThemePackage"
    /\ collabOk
    /\ boxes = <<"Success!">>
    /\ themeBefore = "fallback"
    /\ gPrefs = [theme |-> "light", blend |-> TRUE]

\* C12: a ShowHelp call opens exactly one destination: the remote URL when it
\* is non-empty and the preference specifies remote, or when the local file
\* name is invalid; the local file in every other case.
C12_ShowHelpOneDestination ==
    helpCall.done =>
        LET useRemote ==
                \/ helpCall.remote # <<>> /\ helpCall.mode = "FromInternet"
                \/ ~LocalValid(helpCall.local, helpCall.files)
        IN  /\ Len(opened) = 1
            /\ useRemote  => opened[1] = [kind |-> "remote", target |-> helpCall.remote]
            /\ ~useRemote => opened[1] = [kind |-> "local", target |-> helpCall.local]

\* The manual is installed and named with an anchor, the preference says
\* remote and a URL is given: the URL is opened, and only it.
C12_Witness ==
    /\ helpCall.done
    /\ helpCall.mode = "FromInternet"
    /\ helpCall.local = <<"index.html", "#", "top">>
    /\ LocalValid(helpCall.local, helpCall.files)
    /\ helpCall.remote = <<"https://manual", "index.html">>
    /\ opened = <<[kind |-> "remote", target |-> helpCall.remote]>>

\* The toolbar operations that fill the host's devices.
RefreshOps == {"Populate", "OnRescannedDevices", "ChangeHost"}

====
